---------------------------- MODULE Spec2Model ----------------------------
(***************************************************************************)
(* Model of labs/multiverse/src/main.rs: the room-list reconciliation     *)
(* task (listen_task), the per-room timeline feeder tasks, the selectable  *)
(* room list, and the operations of App that the render loop dispatches.   *)
(*                                                                         *)
(* Tasks are tokio tasks on the multi-threaded runtime (#[tokio::main]):   *)
(* every step below that touches shared state is one lock acquisition;     *)
(* JoinHandle::abort() cancels a task only where it is suspended at an     *)
(* .await, the code between two suspension points always runs to its end.  *)
(***************************************************************************)
EXTENDS Integers, Sequences, FiniteSets, TLC

(***************************************************************************)
(* Bounds of the model.                                                    *)
(***************************************************************************)
MaxLen == 2        \* longest room list the stream produces, with two rooms
MaxLenOne == 3     \* longest room list the stream produces, with one room
MaxBatch == 2      \* most diffs in one batch of a stream
MaxItems == 2      \* longest item collection a timeline stream produces
MaxStatus == 3     \* most calls of set_status_message in a run
MaxPaginations == 3 \* most pagination tasks spawned in a run
MaxBatches == 2    \* most batches of a stream that is given in full
MaxDiffs == 3      \* most diffs in all the batches of such a stream

\* sleep(Duration::from_secs(4)), in seconds
StatusDelay == 4

Rooms == {"r1", "r2"}

\* Timeline items, by what the operations tell apart: an event that is a
\* message, and a virtual item.
ItemKinds == {"msg", "marker"}

\* Option<T>: None is the empty sequence, Some(x) the one-element sequence.
None == <<>>
Some(x) == <<x>>
IsSome(o) == o # <<>>
Unwrap(o) == o[1]

Min(a, b) == IF a < b THEN a ELSE b

(***************************************************************************)
(* VectorDiff and its application (diff.apply(&mut rooms)).  Indices are   *)
(* 0-based as in the code; sequences are 1-based.                          *)
(***************************************************************************)
DAppend(vs) == [op |-> "Append", values |-> vs]
DClear == [op |-> "Clear"]
DPushFront(v) == [op |-> "PushFront", value |-> v]
DPushBack(v) == [op |-> "PushBack", value |-> v]
DPopFront == [op |-> "PopFront"]
DPopBack == [op |-> "PopBack"]
DInsert(i, v) == [op |-> "Insert", index |-> i, value |-> v]
DSet(i, v) == [op |-> "Set", index |-> i, value |-> v]
DRemove(i) == [op |-> "Remove", index |-> i]
DTruncate(n) == [op |-> "Truncate", length |-> n]
DReset(vs) == [op |-> "Reset", values |-> vs]

RemoveAt(s, i) == SubSeq(s, 1, i) \o SubSeq(s, i + 2, Len(s))

Apply(d, s) ==
    CASE d.op = "Append" -> s \o d.values
      [] d.op = "Clear" -> <<>>
      [] d.op = "PushFront" -> <<d.value>> \o s
      [] d.op = "PushBack" -> Append(s, d.value)
      [] d.op = "PopFront" -> IF s = <<>> THEN s ELSE Tail(s)
      [] d.op = "PopBack" -> IF s = <<>> THEN s ELSE SubSeq(s, 1, Len(s) - 1)
      [] d.op = "Insert" -> SubSeq(s, 1, d.index) \o <<d.value>> \o SubSeq(s, d.index + 1, Len(s))
      [] d.op = "Set" -> [s EXCEPT ![d.index + 1] = d.value]
      [] d.op = "Remove" -> RemoveAt(s, d.index)
      [] d.op = "Truncate" -> SubSeq(s, 1, Min(d.length, Len(s)))
      [] d.op = "Reset" -> d.values

\* The sequence backwards.
Reverse(s) == [i \in 1..Len(s) |-> s[Len(s) + 1 - i]]

\* ApplyBatch that leaves the collection reversed after each batch.
RECURSIVE ApplyBatch_Reversing(_, _)
ApplyBatch_Reversing(batch, s) ==
    IF batch = <<>> THEN Reverse(s)
    ELSE ApplyBatch_Reversing(Tail(batch), Apply(Head(batch), s))

\* for diff in diffs { diff.apply(&mut rooms) }, the whole loop.
RECURSIVE ApplyBatch(_, _)
ApplyBatch(batch, s) ==
    IF batch = <<>> THEN s ELSE ApplyBatch(Tail(batch), Apply(Head(batch), s))

(***************************************************************************)
(* What the room-list stream can emit next, given the list the diffs so    *)
(* far produced: diffs whose indices are valid for that list.              *)
(***************************************************************************)
StreamDiffs(s, values, max_len) ==
    {DPushBack(v) : v \in {x \in values : Len(s) < max_len}}
        \cup {DInsert(0, v) : v \in {x \in values : Len(s) < max_len /\ Len(s) > 0}}
        \cup {DRemove(i) : i \in 0..(Len(s) - 1)}
        \cup {DClear}

\* The batches of at most n diffs.
RECURSIVE StreamBatches(_, _, _, _)
StreamBatches(s, values, max_len, n) ==
    IF n = 0 THEN {<<>>}
    ELSE {<<>>} \cup UNION {{<<d>> \o b : b \in StreamBatches(Apply(d, s), values, max_len, n - 1)} :
                              d \in StreamDiffs(s, values, max_len)}

\* The sequences of at most n values.
Seqs(values, n) == UNION {[1..k -> values] : k \in 0..n}

\* Every diff of the six kinds append, insert-at, remove-at, replace-at,
\* clear and reset that is valid on s and keeps it within max_len.
AllDiffs(s, values, max_len) ==
    {DAppend(vs) : vs \in Seqs(values, max_len - Len(s)) \ {<<>>}}
        \cup {DInsert(i, v) : i \in {j \in 0..Len(s) : Len(s) < max_len}, v \in values}
        \cup {DRemove(i) : i \in 0..(Len(s) - 1)}
        \cup {DSet(i, v) : i \in 0..(Len(s) - 1), v \in values}
        \cup {DClear}
        \cup {DReset(vs) : vs \in Seqs(values, max_len)}

\* The batches of at most n such diffs, each valid when its turn comes.
RECURSIVE AllBatches(_, _, _, _)
AllBatches(s, values, max_len, n) ==
    IF n = 0 THEN {<<>>}
    ELSE {<<>>} \cup UNION {{<<d>> \o b : b \in AllBatches(Apply(d, s), values, max_len, n - 1)} :
                              d \in AllDiffs(s, values, max_len)}

\* The lists of at most k such batches, of at most n diffs in all.
RECURSIVE BatchLists(_, _, _, _, _)
BatchLists(s, values, max_len, n, k) ==
    IF k = 0 THEN {<<>>}
    ELSE {<<>>} \cup UNION {{<<b>> \o bs : bs \in BatchLists(ApplyBatch(b, s), values, max_len,
                                                              n - Len(b), k - 1)} :
                              b \in AllBatches(s, values, max_len, n)}

(***************************************************************************)
(* State.                                                                  *)
(***************************************************************************)
VARIABLES
    backend,                    \* the account behind the streams: [rooms, max_len, infos], fixed
    rooms,                      \* room_list_rooms.items: Vector<Room>, as room ids
    selected,                   \* room_list_rooms.state.selected(): Option<usize>
    ui_rooms,                   \* keys of App::ui_rooms
    timelines,                  \* App::timelines: room id -> Timeline (named by its feeder task)
    feeders,                    \* every timeline_task spawned, in spawn order: [room, st, items,
                                \* diffs], items the Timeline's shared collection, diffs the
                                \* diffs of the task's current batch not applied yet
    listen_task,                \* state of the listen_task JoinHandle
    lpc,                        \* where listen_task is in its loop
    diffs,                      \* diffs of the current batch not applied yet
    all_rooms,                  \* listen_task local: snapshot of rooms
    previous_ui_rooms,          \* listen_task local
    new_ui_rooms,               \* listen_task local
    new_timelines,              \* listen_task local: Vec<(room id, Timeline)>
    idx,                        \* listen_task local: position of the running for loop in all_rooms
    held,                       \* <<task, lock, n>>: mutex guards alive across a step boundary
                                \* (n the feeder for a feeder task and an items lock, else 0)
    pc,                         \* where the main task (App::run, render_loop) is
    nav,                        \* locals of the last next()/previous() call, while a key is handled
    sub_room,                   \* subscribe_to_selected_room local: what get_selected_room_id returned
    current_room_subscription,  \* App::current_room_subscription, as a room id
    details_mode,               \* App::details_mode
    last_status_message,        \* App::last_status_message: Option<String>
    clear_status_message,       \* App::clear_status_message: Option<JoinHandle>, as a task index
    status_tasks,               \* every expiry task spawned: [st, remaining], remaining the
                                \* seconds left of its sleep
    current_pagination,         \* App::current_pagination: Option<JoinHandle>, as a task index
    pag_tasks,                  \* every pagination task spawned: [room, st]
    room_info,                  \* App::room_info: room id -> ExtraRoomInfo
    pending_info,               \* listen_task locals while room.is_direct() is awaited: raw_name
                                \* and display_name of the room, with the result the call returns
    send_queue_enabled,         \* client.send_queue().is_enabled()
    item_id,                    \* toggle_reaction_to_latest_msg local: the item found, as its
                                \* position in the items
    stream_initial,             \* a diff-applied collection on its own: its first content,
    stream_batches,             \* the batches its stream delivers,
    stream_pos                  \* and how many of them have been applied

listenVars == <<listen_task, lpc, diffs, all_rooms, previous_ui_rooms, new_ui_rooms,
                new_timelines, idx>>
mainVars == <<pc, nav, sub_room, current_room_subscription, details_mode>>
statusVars == <<last_status_message, clear_status_message, status_tasks>>
pagVars == <<current_pagination, pag_tasks>>
streamVars == <<stream_initial, stream_batches, stream_pos>>
moreVars == <<room_info, pending_info, send_queue_enabled, item_id, streamVars>>
opsVars == <<statusVars, pagVars, moreVars>>

vars == <<backend, rooms, selected, ui_rooms, timelines, feeders, listenVars, held, mainVars,
          opsVars>>

\* No next()/previous() call is being handled.
NoNav == [dir |-> "none", num_items |-> 0, prev |-> None, ret |-> None]

DetailsModes == {"ReadReceipts", "TimelineItems", "Events", "LinkedChunk"}

Free(lock) == \A h \in held : h[2] # lock

\* The items lock of feeder f's Timeline is free.
FreeItems(f) == \A h \in held : ~(h[2] = "items" /\ h[3] = f)

\* An abort() that cancels the task wherever it is.
Aborted_Anywhere(st, suspended) ==
    IF st = "running" THEN "cancelled" ELSE st

\* JoinHandle::abort() on a task: one suspended at an .await never runs
\* again; one that is running goes on to its next suspension point.
Aborted(st, suspended) ==
    IF st = "running" THEN (IF suspended THEN "cancelled" ELSE "abort_requested") ELSE st

\* The state App::new returns, for an account; initial and batches are the
\* first content and the stream of a collection that is followed on its
\* own.
InitStream(account, initial, batches) ==
    /\ backend = account
    /\ rooms = initial
    /\ selected = None
    /\ ui_rooms = {}
    /\ timelines = <<>>
    /\ feeders = <<>>
    /\ listen_task = "running"
    /\ lpc = "wait"
    /\ diffs = <<>>
    /\ all_rooms = <<>>
    /\ previous_ui_rooms = {}
    /\ new_ui_rooms = {}
    /\ new_timelines = <<>>
    /\ idx = 0
    /\ held = {}
    /\ pc = "idle"
    /\ nav = NoNav
    /\ sub_room = None
    /\ current_room_subscription = None
    /\ details_mode = "TimelineItems"
    /\ last_status_message = None
    /\ clear_status_message = None
    /\ status_tasks = <<>>
    /\ current_pagination = None
    /\ pag_tasks = <<>>
    /\ room_info = <<>>
    /\ pending_info = None
    /\ send_queue_enabled = TRUE
    /\ item_id = None
    /\ stream_initial = initial
    /\ stream_batches = batches
    /\ stream_pos = 0

InitWith(account) == InitStream(account, <<>>, <<>>)

\* Result<T, E>
Ok(v) == <<"Ok", v>>
Err == <<"Err">>

\* What the backend answers about a room without names that is not a DM:
\* room.name(), room.cached_display_name() and the result of is_direct().
NoNames == [raw_name |-> None, display_name |-> None, is_direct |-> Ok(FALSE)]

\* The state App::new returns, for an account of two rooms.
Init == InitWith([rooms |-> Rooms, max_len |-> MaxLen, infos |-> {NoNames}])

\* The same, for an account of one room and a longer list.
InitOne == InitWith([rooms |-> {"r1"}, max_len |-> MaxLenOne, infos |-> {NoNames}])

\* The same, for an account of one room that the list shows once.
InitSmall == InitWith([rooms |-> {"r1"}, max_len |-> 1, infos |-> {NoNames}])

(***************************************************************************)
(* listen_task: the reconciliation loop of App::new.                       *)
(***************************************************************************)
\* The .await points of the loop: stream.next(), is_direct(), and the three
\* awaits of the timeline initialisation (default_room_timeline_builder,
\* init_timeline_with_builder, subscribe), between which no shared state is
\* touched.
ListenAwaitPcs == {"wait", "info", "init"}

\* The filter that finds no room new.
NextNew_None(all, prev, from) == 0

\* First position >= from in all whose room passes
\* .filter(|room| !previous_ui_rooms.contains_key(room.room_id())); 0 if none.
NextNew(all, prev, from) ==
    LET js == {j \in from..Len(all) : all[j] \notin prev}
    IN IF js = {} THEN 0 ELSE CHOOSE j \in js : \A k \in js : j <= k

\* An insert that leaves an entry that is there as it is.
MapInsert_KeepsEntry(m, k, v) ==
    [x \in (DOMAIN m) \cup {k} |-> IF x \in DOMAIN m THEN m[x] ELSE v]

\* An insert into a map emptied first.
MapInsert_Alone(m, k, v) == [x \in {k} |-> v]

\* HashMap::insert
MapInsert(m, k, v) == [x \in (DOMAIN m) \cup {k} |-> IF x = k THEN v ELSE m[x]]

\* HashMap::extend with a Vec of pairs: inserted in order, a later pair
\* replaces an earlier one of the same key.
RECURSIVE MapExtend(_, _)
MapExtend(m, pairs) ==
    IF pairs = <<>> THEN m
    ELSE MapExtend(MapInsert(m, Head(pairs)[1], Head(pairs)[2]), Tail(pairs))

\* stream.next().await returns a batch; the rooms lock is taken and the
\* first diff applied.  The guard is dropped, after the clone of the list,
\* when the last diff of the batch has been applied.
ListenRecv ==
    /\ listen_task # "cancelled"
    /\ lpc = "wait"
    /\ Free("rooms")
    /\ \E batch \in StreamBatches(rooms, backend.rooms, backend.max_len, MaxBatch) \ {<<>>} :
        /\ rooms' = Apply(Head(batch), rooms)
        /\ diffs' = Tail(batch)
        /\ IF Tail(batch) = <<>>
           THEN /\ all_rooms' = rooms'
                /\ lpc' = "prev"
                /\ held' = held
           ELSE /\ all_rooms' = all_rooms
                /\ lpc' = "apply"
                /\ held' = held \cup {<<"listen", "rooms", 0>>}
    /\ UNCHANGED <<backend, opsVars, mainVars, selected, ui_rooms, timelines, feeders, listen_task,
                   previous_ui_rooms, new_ui_rooms, new_timelines, idx>>

\* for diff in diffs { diff.apply(&mut rooms) }, one diff, the guard held.
ListenApply ==
    /\ listen_task # "cancelled"
    /\ lpc = "apply"
    /\ rooms' = Apply(Head(diffs), rooms)
    /\ diffs' = Tail(diffs)
    /\ IF Tail(diffs) = <<>>
       THEN /\ all_rooms' = rooms'
            /\ lpc' = "prev"
            /\ held' = held \ {<<"listen", "rooms", 0>>}
       ELSE /\ all_rooms' = all_rooms
            /\ lpc' = "apply"
            /\ held' = held
    /\ UNCHANGED <<backend, opsVars, mainVars, selected, ui_rooms, timelines, feeders, listen_task,
                   previous_ui_rooms, new_ui_rooms, new_timelines, idx>>

\* let previous_ui_rooms = ui_rooms.lock().unwrap().clone(); the two locals
\* are created; the first for loop starts (or both loops are empty).
ListenSnapshot ==
    /\ listen_task # "cancelled"
    /\ lpc = "prev"
    /\ Free("ui_rooms")
    /\ previous_ui_rooms' = ui_rooms
    /\ new_ui_rooms' = {}
    /\ new_timelines' = <<>>
    /\ IF all_rooms = <<>>
       THEN lpc' = "merge_ui" /\ idx' = 0 /\ pending_info' = None
       ELSE lpc' = "info" /\ idx' = 1 /\ \E answer \in backend.infos : pending_info' = Some(answer)
    /\ UNCHANGED <<backend, statusVars, pagVars, room_info, send_queue_enabled, item_id, streamVars,
                   mainVars, rooms, selected, ui_rooms, timelines, feeders, listen_task, diffs,
                   all_rooms, held>>

\* The conversion that takes an error for "not a DM".
ResultOk_DefaultFalse(result) == IF result[1] = "Ok" THEN Some(result[2]) ELSE Some(FALSE)

\* Result::ok()
ResultOk(result) == IF result[1] = "Ok" THEN Some(result[2]) ELSE None

\* ExtraRoomInfo { raw_name, display_name, is_dm }
ExtraRoomInfo(answer) ==
    [raw_name |-> answer.raw_name, display_name |-> answer.display_name,
     is_dm |-> ResultOk(answer.is_direct)]

\* room.is_direct().await returns for all_rooms[idx] and the room's
\* ExtraRoomInfo is inserted; the loop goes on, or the second loop starts at
\* its first new room.
ListenInfo ==
    /\ listen_task # "cancelled"
    /\ lpc = "info"
    /\ room_info' = MapInsert(room_info, all_rooms[idx], ExtraRoomInfo(Unwrap(pending_info)))
    /\ IF idx < Len(all_rooms)
       THEN /\ lpc' = "info"
            /\ idx' = idx + 1
            /\ \E answer \in backend.infos : pending_info' = Some(answer)
       ELSE LET j == NextNew(all_rooms, previous_ui_rooms, 1)
            IN /\ idx' = j
               /\ lpc' = IF j = 0 THEN "merge_ui" ELSE "init"
               /\ pending_info' = None
    /\ UNCHANGED <<backend, statusVars, pagVars, send_queue_enabled, item_id, streamVars,
                   mainVars, rooms, selected, ui_rooms, timelines, feeders, listen_task, diffs,
                   all_rooms, previous_ui_rooms, new_ui_rooms, new_timelines, held>>

\* An initialisation whose error does not end the iteration: the room is
\* put in new_ui_rooms all the same.
ListenInit_FailureRegisters ==
    /\ listen_task # "cancelled"
    /\ lpc = "init"
    /\ \E ok \in BOOLEAN :
        IF ok
        THEN /\ feeders' = Append(feeders, [room |-> all_rooms[idx], st |-> "running",
                                            items |-> <<>>, diffs |-> <<>>])
             /\ new_timelines' = Append(new_timelines, <<all_rooms[idx], Len(feeders) + 1>>)
             /\ new_ui_rooms' = new_ui_rooms \cup {all_rooms[idx]}
        ELSE /\ new_ui_rooms' = new_ui_rooms \cup {all_rooms[idx]}
             /\ UNCHANGED <<feeders, new_timelines>>
    /\ LET j == NextNew(all_rooms, previous_ui_rooms, idx + 1)
       IN /\ idx' = j
          /\ lpc' = IF j = 0 THEN "merge_ui" ELSE "init"
    /\ UNCHANGED <<backend, opsVars, mainVars, rooms, selected, ui_rooms, timelines, listen_task, diffs, all_rooms,
                   previous_ui_rooms, held>>

\* The initialisation of the new room all_rooms[idx] ends: with an error
\* (continue), or with a timeline, whose feeder task is spawned and which is
\* pushed to new_timelines and new_ui_rooms.
ListenInit ==
    /\ listen_task # "cancelled"
    /\ lpc = "init"
    /\ \E ok \in BOOLEAN :
        IF ok
        THEN /\ feeders' = Append(feeders, [room |-> all_rooms[idx], st |-> "running",
                                            items |-> <<>>, diffs |-> <<>>])
             /\ new_timelines' = Append(new_timelines, <<all_rooms[idx], Len(feeders) + 1>>)
             /\ new_ui_rooms' = new_ui_rooms \cup {all_rooms[idx]}
        ELSE UNCHANGED <<feeders, new_timelines, new_ui_rooms>>
    /\ LET j == NextNew(all_rooms, previous_ui_rooms, idx + 1)
       IN /\ idx' = j
          /\ lpc' = IF j = 0 THEN "merge_ui" ELSE "init"
    /\ UNCHANGED <<backend, opsVars, mainVars, rooms, selected, ui_rooms, timelines, listen_task, diffs, all_rooms,
                   previous_ui_rooms, held>>

\* A merge that drops new_ui_rooms without extending ui_rooms.
ListenMergeUi_Forgets ==
    /\ listen_task # "cancelled"
    /\ lpc = "merge_ui"
    /\ Free("ui_rooms")
    /\ new_ui_rooms' = {}
    /\ lpc' = "merge_tl"
    /\ UNCHANGED <<backend, opsVars, mainVars, rooms, selected, ui_rooms, timelines, feeders, listen_task, diffs,
                   all_rooms, previous_ui_rooms, new_timelines, idx, held>>

\* ui_rooms.lock().unwrap().extend(new_ui_rooms);
ListenMergeUi ==
    /\ listen_task # "cancelled"
    /\ lpc = "merge_ui"
    /\ Free("ui_rooms")
    /\ ui_rooms' = ui_rooms \cup new_ui_rooms
    /\ new_ui_rooms' = {}
    /\ lpc' = "merge_tl"
    /\ UNCHANGED <<backend, opsVars, mainVars, rooms, selected, timelines, feeders, listen_task, diffs, all_rooms,
                   previous_ui_rooms, new_timelines, idx, held>>

\* timelines.lock().unwrap().extend(new_timelines); the loop body ends and
\* the task is back at stream.next().await.
ListenMergeTimelines ==
    /\ listen_task # "cancelled"
    /\ lpc = "merge_tl"
    /\ Free("timelines")
    /\ timelines' = MapExtend(timelines, new_timelines)
    /\ new_timelines' = <<>>
    /\ previous_ui_rooms' = {}
    /\ all_rooms' = <<>>
    /\ lpc' = "wait"
    /\ UNCHANGED <<backend, opsVars, mainVars, rooms, selected, ui_rooms, feeders, listen_task, diffs, new_ui_rooms,
                   idx, held>>

\* The task, abort() having been called on its handle while it was running,
\* is cancelled at the next .await that suspends it (one whose result is
\* ready at once does not, and the task goes on); its locals are dropped.
ListenCancelled ==
    /\ listen_task = "abort_requested"
    /\ lpc \in ListenAwaitPcs
    /\ listen_task' = "cancelled"
    /\ all_rooms' = <<>>
    /\ previous_ui_rooms' = {}
    /\ new_ui_rooms' = {}
    /\ new_timelines' = <<>>
    /\ idx' = 0
    /\ UNCHANGED <<backend, opsVars, mainVars, rooms, selected, ui_rooms, timelines, feeders, lpc, diffs, held>>

\* The diff application of the loop on its own: the next batch the given
\* stream delivers is applied to the room list, under the rooms lock.
ApplyNextBatch ==
    /\ listen_task # "cancelled"
    /\ lpc = "wait"
    /\ Free("rooms")
    /\ stream_pos < Len(stream_batches)
    /\ rooms' = ApplyBatch(stream_batches[stream_pos + 1], rooms)
    /\ stream_pos' = stream_pos + 1
    /\ UNCHANGED <<backend, statusVars, pagVars, room_info, pending_info, send_queue_enabled, item_id,
                   stream_initial, stream_batches, mainVars, selected, ui_rooms, timelines,
                   feeders, listenVars, held>>

ListenNext ==
    \/ ListenRecv
    \/ ListenApply
    \/ ListenSnapshot
    \/ ListenInfo
    \/ ListenInit
    \/ ListenMergeUi
    \/ ListenMergeTimelines

(***************************************************************************)
(* StatefulList::next / StatefulList::previous.                            *)
(***************************************************************************)
\* NextIndex that stays on the last index.
NextIndex_Sticks(prev, num_items) ==
    IF prev = None THEN 0
    ELSE IF Unwrap(prev) >= num_items - 1 THEN num_items - 1 ELSE Unwrap(prev) + 1

\* NextIndex with > for >=: no wrap from the last index.
NextIndex_OffByOne(prev, num_items) ==
    IF prev = None THEN 0
    ELSE IF Unwrap(prev) > num_items - 1 THEN 0 ELSE Unwrap(prev) + 1

\* prev.map_or(0, |i| if i >= num_items - 1 { 0 } else { i + 1 })
NextIndex(prev, num_items) ==
    IF prev = None THEN 0
    ELSE IF Unwrap(prev) >= num_items - 1 THEN 0 ELSE Unwrap(prev) + 1

\* PreviousIndex that starts from the last index when nothing is selected.
PreviousIndex_FromLast(prev, num_items) ==
    IF prev = None THEN num_items - 1
    ELSE IF Unwrap(prev) = 0 THEN num_items - 1 ELSE Unwrap(prev) - 1

\* PreviousIndex that stops at the first index instead of wrapping.
PreviousIndex_NoWrap(prev, num_items) ==
    IF prev = None THEN 0
    ELSE IF Unwrap(prev) = 0 THEN 0 ELSE Unwrap(prev) - 1

\* prev.map_or(0, |i| if i == 0 { num_items - 1 } else { i - 1 })
PreviousIndex(prev, num_items) ==
    IF prev = None THEN 0
    ELSE IF Unwrap(prev) = 0 THEN num_items - 1 ELSE Unwrap(prev) - 1

\* Navigate that returns the index also when the cursor stays where it was.
Navigate_AlwaysReturns(dir, prev, num_items) ==
    IF num_items = 0
    THEN [sel |-> None, ret |-> None]
    ELSE LET new == IF dir = "next" THEN NextIndex(prev, num_items)
                    ELSE PreviousIndex(prev, num_items)
         IN [sel |-> Some(new), ret |-> Some(new)]

\* Navigate without the early return on an empty list: the cursor is kept.
Navigate_KeepOnEmpty(dir, prev, num_items) ==
    IF num_items = 0
    THEN [sel |-> prev, ret |-> None]
    ELSE LET new == IF dir = "next" THEN NextIndex(prev, num_items)
                    ELSE PreviousIndex(prev, num_items)
         IN IF prev # Some(new)
            THEN [sel |-> Some(new), ret |-> Some(new)]
            ELSE [sel |-> prev, ret |-> None]

\* The selection the call leaves and the value it returns, from the
\* selection before it and the length it read.
Navigate(dir, prev, num_items) ==
    IF num_items = 0
    THEN [sel |-> None, ret |-> None]
    ELSE LET new == IF dir = "next" THEN NextIndex(prev, num_items)
                    ELSE PreviousIndex(prev, num_items)
         IN IF prev # Some(new)
            THEN [sel |-> Some(new), ret |-> Some(new)]
            ELSE [sel |-> prev, ret |-> None]

\* Vector::get(index)
Get(s, i) == IF i < Len(s) THEN Some(s[i + 1]) ELSE None

\* App::get_selected_room_id(selected), on the list as it is under the lock.
SelectedRoomId(given) ==
    LET sel == IF IsSome(given) THEN given ELSE selected
    IN IF sel = None THEN None ELSE Get(rooms, Unwrap(sel))

\* Without the take(): the recorded subscription is kept.
Taken_Kept(subscription) == subscription

\* self.current_room_subscription.take(): what the field holds afterwards.
Taken(subscription) == None

\* What subscribe_to_selected_room records: the room get_selected_room_id
\* returned, if ui_rooms holds it.
Resolved(room_id, known) ==
    IF IsSome(room_id) /\ Unwrap(room_id) \in known THEN room_id ELSE None

(***************************************************************************)
(* The main task: render_loop's key handlers.                              *)
(***************************************************************************)
\* 'j' / 'k': next() or previous() reads the length under the rooms lock,
\* then moves the cursor (state is touched by the main task only).
KeyNav ==
    /\ pc = "idle"
    /\ Free("rooms")
    /\ \E dir \in {"next", "previous"} :
        LET r == Navigate(dir, selected, Len(rooms))
        IN /\ selected' = r.sel
           /\ nav' = [dir |-> dir, num_items |-> Len(rooms), prev |-> selected, ret |-> r.ret]
    /\ pc' = "nav_done"
    /\ UNCHANGED <<backend, opsVars, rooms, ui_rooms, timelines, feeders, listenVars, held, sub_room,
                   current_room_subscription, details_mode>>

\* if let Some(i) = ... { self.subscribe_to_selected_room(i) }: nothing more
\* on None; on Some(i) the recorded subscription is taken (dropped) and
\* get_selected_room_id(Some(i)) reads the list under the rooms lock.
NavReturn ==
    /\ pc = "nav_done"
    /\ IF nav.ret = None
       THEN /\ pc' = "idle"
            /\ nav' = NoNav
            /\ UNCHANGED <<sub_room, current_room_subscription>>
       ELSE /\ Free("rooms")
            /\ current_room_subscription' = Taken(current_room_subscription)
            /\ sub_room' = SelectedRoomId(nav.ret)
            /\ pc' = "sub_lookup"
            /\ nav' = nav
    /\ UNCHANGED <<backend, opsVars, rooms, selected, ui_rooms, timelines, feeders, listenVars, held,
                   details_mode>>

\* .and_then(|room_id| self.ui_rooms.lock().unwrap().get(&room_id).cloned()):
\* if the room is there, subscribe_to_rooms is called and the room recorded.
SubLookup ==
    /\ pc = "sub_lookup"
    /\ Free("ui_rooms")
    /\ LET room == Resolved(sub_room, ui_rooms)
       IN current_room_subscription' = IF IsSome(room) THEN room ELSE current_room_subscription
    /\ pc' = "sub_done"
    /\ UNCHANGED <<backend, opsVars, rooms, selected, ui_rooms, timelines, feeders, listenVars, held, nav,
                   sub_room, details_mode>>

\* subscribe_to_selected_room returns; the key has been handled.
SubReturn ==
    /\ pc = "sub_done"
    /\ pc' = "idle"
    /\ nav' = NoNav
    /\ sub_room' = None
    /\ UNCHANGED <<backend, opsVars, rooms, selected, ui_rooms, timelines, feeders, listenVars, held,
                   current_room_subscription, details_mode>>

\* A mode key that also drops the selection.
KeyMode_DropsSelection ==
    /\ pc = "idle"
    /\ \E m \in DetailsModes : details_mode' = m
    /\ selected' = None
    /\ UNCHANGED <<backend, opsVars, rooms, ui_rooms, timelines, feeders, listenVars, held, pc, nav,
                   sub_room, current_room_subscription>>

\* 'r' / 't' / 'e' / 'l'
KeyMode ==
    /\ pc = "idle"
    /\ \E m \in DetailsModes : details_mode' = m
    /\ UNCHANGED <<backend, opsVars, rooms, selected, ui_rooms, timelines, feeders, listenVars, held, pc, nav,
                   sub_room, current_room_subscription>>

NavNext ==
    \/ KeyNav
    \/ NavReturn
    \/ SubLookup
    \/ SubReturn

(***************************************************************************)
(* terminal.draw: the render pass.                                         *)
(***************************************************************************)
\* What the list widget may do to the ListState it is handed
\* (StatefulWidget::render(items, .., &mut self.room_list_rooms.state)):
\* leave it, or pull a cursor that is out of the list back into it.
Clamped(sel, n) ==
    IF n = 0 THEN None
    ELSE IF IsSome(sel) /\ Unwrap(sel) >= n THEN Some(n - 1) ELSE sel

\* render_left, then render_right.  In the TimelineItems mode
\* render_timeline reads the items under their lock.  In the LinkedChunk and
\* Events modes the guard of ui_rooms.lock() is a temporary of the match
\* scrutinee: it lives to the end of the match, over
\* block_on(room.event_cache() ...).
Render ==
    /\ pc = "idle"
    /\ Free("rooms")
    /\ \E sel \in {selected, Clamped(selected, Len(rooms))} :
        /\ selected' = sel
        /\ LET room_id == IF sel = None THEN None ELSE Get(rooms, Unwrap(sel))
           IN /\ (/\ IsSome(room_id)
                  /\ details_mode = "TimelineItems"
                  /\ Unwrap(room_id) \in DOMAIN timelines) => FreeItems(timelines[Unwrap(room_id)])
              /\ IF /\ IsSome(room_id)
                    /\ details_mode \in {"LinkedChunk", "Events"}
                    /\ Unwrap(room_id) \in ui_rooms
                 THEN /\ pc' = "render_backend"
                      /\ held' = held \cup {<<"main", "ui_rooms", 0>>}
                 ELSE /\ pc' = "idle"
                      /\ held' = held
    /\ UNCHANGED <<backend, opsVars, rooms, ui_rooms, timelines, feeders, listenVars, nav, sub_room,
                   current_room_subscription, details_mode>>

\* The backend call of the render pass returns: the paragraph is rendered
\* and the guard dropped, or .expect() / .unwrap() panics on the error.
RenderBackendReturn ==
    /\ pc = "render_backend"
    /\ \E ok \in BOOLEAN : pc' = IF ok THEN "idle" ELSE "panicked"
    /\ held' = held \ {<<"main", "ui_rooms", 0>>}
    /\ UNCHANGED <<backend, opsVars, rooms, selected, ui_rooms, timelines, feeders, listenVars, nav, sub_room,
                   current_room_subscription, details_mode>>

RenderNext ==
    \/ Render
    \/ RenderBackendReturn
    \/ KeyMode

(***************************************************************************)
(* Status messages.                                                        *)
(***************************************************************************)
\* Without the abort: the previous expiry task is left alone.
AbortStatus_Skipped(tasks, handle) == tasks

\* if let Some(handle) = self.clear_status_message.take() { handle.abort(); }
\* A task suspended in its sleep is cancelled; one that the timer has woken
\* has no suspension point left and runs to its end.
AbortStatus(tasks, handle) ==
    IF handle = None THEN tasks
    ELSE [tasks EXCEPT ![Unwrap(handle)] =
             IF @.st = "sleeping" THEN [st |-> "cancelled", remaining |-> 0] ELSE @]

\* App::set_status_message(status)
SetStatusMessage(status) ==
    /\ Len(status_tasks) < MaxStatus
    /\ status_tasks' = Append(AbortStatus(status_tasks, clear_status_message),
                              [st |-> "sleeping", remaining |-> StatusDelay])
    /\ last_status_message' = Some(status)
    /\ clear_status_message' = Some(Len(status_tasks) + 1)

\* One second passes for the tasks that sleep.
Tick ==
    /\ \E t \in DOMAIN status_tasks :
          status_tasks[t].st = "sleeping" /\ status_tasks[t].remaining > 0
    /\ status_tasks' = [t \in DOMAIN status_tasks |->
                          IF status_tasks[t].st = "sleeping" /\ status_tasks[t].remaining > 0
                          THEN [status_tasks[t] EXCEPT !.remaining = @ - 1]
                          ELSE status_tasks[t]]
    /\ UNCHANGED <<backend, moreVars, pagVars, last_status_message, clear_status_message, rooms, selected,
                   ui_rooms, timelines, feeders, listenVars, held, mainVars>>

\* sleep(Duration::from_secs(4)).await returns in expiry task t.
ExpiryWake(t) ==
    /\ status_tasks[t].st = "sleeping"
    /\ status_tasks[t].remaining = 0
    /\ status_tasks' = [status_tasks EXCEPT ![t].st = "woken"]
    /\ UNCHANGED <<backend, moreVars, pagVars, last_status_message, clear_status_message, rooms, selected,
                   ui_rooms, timelines, feeders, listenVars, held, mainVars>>

\* *message.lock().unwrap() = None; the task ends.
ExpiryClear(t) ==
    /\ status_tasks[t].st = "woken"
    /\ last_status_message' = None
    /\ status_tasks' = [status_tasks EXCEPT ![t].st = "done"]
    /\ UNCHANGED <<backend, moreVars, pagVars, clear_status_message, rooms, selected, ui_rooms, timelines,
                   feeders, listenVars, held, mainVars>>

\* The Timeline the operations on the selected room use:
\* self.get_selected_room_id(None).and_then(|room_id| timelines.get(&room_id)),
\* as the room id.
\* The lookup that takes the selected room whether it has a timeline or not.
SelectedTimeline_AnyRoom == SelectedRoomId(None)

SelectedTimeline ==
    LET room_id == SelectedRoomId(None)
    IN IF IsSome(room_id) /\ Unwrap(room_id) \in DOMAIN timelines THEN room_id ELSE None

\* 'M': without a timeline the status says so; with one, send(..) is awaited.
KeySend ==
    /\ pc = "idle"
    /\ Free("rooms")
    /\ Free("timelines")
    /\ IF SelectedTimeline = None
       THEN /\ SetStatusMessage("missing timeline for room")
            /\ pc' = "idle"
       ELSE /\ pc' = "sending"
            /\ UNCHANGED statusVars
    /\ UNCHANGED <<backend, moreVars, pagVars, rooms, selected, ui_rooms, timelines, feeders, listenVars,
                   held, nav, sub_room, current_room_subscription, details_mode>>

\* sdk_timeline.send(..).await returns.
SendReturn ==
    /\ pc = "sending"
    /\ \E ok \in BOOLEAN :
          SetStatusMessage(IF ok THEN "message sent!" ELSE "error when sending event")
    /\ pc' = "idle"
    /\ UNCHANGED <<backend, moreVars, pagVars, rooms, selected, ui_rooms, timelines, feeders, listenVars,
                   held, nav, sub_room, current_room_subscription, details_mode>>

\* 'm' in the ReadReceipts mode: App::mark_as_read up to its .await.
KeyMarkAsRead ==
    /\ pc = "idle"
    /\ details_mode = "ReadReceipts"
    /\ Free("rooms")
    /\ Free("ui_rooms")
    /\ IF Resolved(SelectedRoomId(None), ui_rooms) = None
       THEN /\ SetStatusMessage("missing room or nothing to show")
            /\ pc' = "idle"
       ELSE /\ pc' = "marking"
            /\ UNCHANGED statusVars
    /\ UNCHANGED <<backend, moreVars, pagVars, rooms, selected, ui_rooms, timelines, feeders, listenVars,
                   held, nav, sub_room, current_room_subscription, details_mode>>

\* mark_as_read(ReceiptType::Read).await returns.
MarkAsReadReturn ==
    /\ pc = "marking"
    /\ \E status \in {"did send a read receipt!", "did not send a read receipt!",
                      "error when marking a room as read"} :
          SetStatusMessage(status)
    /\ pc' = "idle"
    /\ UNCHANGED <<backend, moreVars, pagVars, rooms, selected, ui_rooms, timelines, feeders, listenVars,
                   held, nav, sub_room, current_room_subscription, details_mode>>

StatusNext ==
    \/ KeySend
    \/ SendReturn
    \/ KeyMarkAsRead
    \/ MarkAsReadReturn
    \/ Tick
    \/ \E t \in DOMAIN status_tasks : ExpiryWake(t)
    \/ \E t \in DOMAIN status_tasks : ExpiryClear(t)

(***************************************************************************)
(* The send queue.                                                         *)
(***************************************************************************)
\* 'Q': let enabled = q.is_enabled(); then q.set_enabled(!enabled) is awaited.
KeyToggleQueue ==
    /\ pc = "idle"
    /\ pc' = "toggling"
    /\ UNCHANGED <<backend, opsVars, rooms, selected, ui_rooms, timelines, feeders, listenVars,
                   held, nav, sub_room, current_room_subscription, details_mode>>

\* q.set_enabled(!enabled).await returns; the key has been handled.
ToggleReturn ==
    /\ pc = "toggling"
    /\ send_queue_enabled' = ~send_queue_enabled
    /\ pc' = "idle"
    /\ UNCHANGED <<backend, statusVars, pagVars, room_info, pending_info, item_id, streamVars, rooms, selected,
                   ui_rooms, timelines, feeders, listenVars, held, nav, sub_room,
                   current_room_subscription, details_mode>>

QueueNext == KeyToggleQueue \/ ToggleReturn

(***************************************************************************)
(* Reactions.                                                              *)
(***************************************************************************)
\* The positions, from 0, of the message events among the items.
Messages(items) == {i \in 0..(Len(items) - 1) : items[i + 1] = "msg"}

\* The scan that stops at the oldest message instead of the newest.
LatestMessage_Oldest(items) ==
    IF Messages(items) = {} THEN None
    ELSE Some(CHOOSE i \in Messages(items) : \A j \in Messages(items) : i <= j)

\* items.iter().rev().find_map(..): the identifier of the first message
\* event met from the newest item backwards; an item is identified here by
\* its position.
RECURSIVE LatestMessage(_)
LatestMessage(items) ==
    IF items = <<>> THEN None
    ELSE IF items[Len(items)] = "msg" THEN Some(Len(items) - 1)
    ELSE LatestMessage(SubSeq(items, 1, Len(items) - 1))

\* 'L': App::toggle_reaction_to_latest_msg up to its .await.
KeyReact ==
    /\ pc = "idle"
    /\ Free("rooms")
    /\ Free("timelines")
    /\ IF SelectedTimeline = None
       THEN /\ SetStatusMessage("missing timeline for room")
            /\ pc' = "idle"
            /\ UNCHANGED item_id
       ELSE /\ FreeItems(timelines[Unwrap(SelectedTimeline)])
            /\ item_id' = LatestMessage(feeders[timelines[Unwrap(SelectedTimeline)]].items)
            /\ IF IsSome(item_id')
               THEN /\ pc' = "reacting"
                    /\ UNCHANGED statusVars
               ELSE /\ SetStatusMessage("no item to react to")
                    /\ pc' = "idle"
    /\ UNCHANGED <<backend, pagVars, room_info, pending_info, send_queue_enabled, streamVars, rooms, selected,
                   ui_rooms, timelines, feeders, listenVars, held, nav, sub_room,
                   current_room_subscription, details_mode>>

\* sdk_timeline.toggle_reaction(&item_id, ..).await returns.
ReactReturn ==
    /\ pc = "reacting"
    /\ \E ok \in BOOLEAN :
          SetStatusMessage(IF ok THEN "reaction sent!" ELSE "error when reacting")
    /\ pc' = "idle"
    /\ UNCHANGED <<backend, moreVars, pagVars, rooms, selected, ui_rooms, timelines, feeders,
                   listenVars, held, nav, sub_room, current_room_subscription, details_mode>>

ReactNext == KeyReact \/ ReactReturn

(***************************************************************************)
(* Back-pagination.                                                        *)
(***************************************************************************)
\* Without the abort: the previous pagination task is left alone.
AbortPagination_Skipped(tasks, handle) == tasks

\* if let Some(prev) = pagination.take() { prev.abort(); }  The task's only
\* suspension point is paginate_backwards(20).await.
AbortPagination(tasks, handle) ==
    IF handle = None THEN tasks
    ELSE [tasks EXCEPT ![Unwrap(handle)].st = IF @ = "inflight" THEN "cancelled" ELSE @]

\* A 'b' arm without its guard on the details mode.
KeyBackPaginate_AnyMode ==
    /\ pc = "idle"
    /\ Free("rooms")
    /\ Free("timelines")
    /\ IF SelectedTimeline = None
       THEN /\ SetStatusMessage("missing timeline for room")
            /\ UNCHANGED pagVars
       ELSE /\ Len(pag_tasks) < MaxPaginations
            /\ pag_tasks' = Append(AbortPagination(pag_tasks, current_pagination),
                                   [room |-> Unwrap(SelectedTimeline), st |-> "inflight"])
            /\ current_pagination' = Some(Len(pag_tasks) + 1)
            /\ UNCHANGED statusVars
    /\ UNCHANGED <<backend, moreVars, rooms, selected, ui_rooms, timelines, feeders, listenVars,
                   held, mainVars>>

\* back_paginate that cancels the previous pagination before it looks for
\* the timeline.
KeyBackPaginate_AbortsFirst ==
    /\ pc = "idle"
    /\ details_mode \in {"TimelineItems", "LinkedChunk"}
    /\ Free("rooms")
    /\ Free("timelines")
    /\ IF SelectedTimeline = None
       THEN /\ SetStatusMessage("missing timeline for room")
            /\ pag_tasks' = AbortPagination(pag_tasks, current_pagination)
            /\ current_pagination' = None
       ELSE /\ Len(pag_tasks) < MaxPaginations
            /\ pag_tasks' = Append(AbortPagination(pag_tasks, current_pagination),
                                   [room |-> Unwrap(SelectedTimeline), st |-> "inflight"])
            /\ current_pagination' = Some(Len(pag_tasks) + 1)
            /\ UNCHANGED statusVars
    /\ UNCHANGED <<backend, moreVars, rooms, selected, ui_rooms, timelines, feeders, listenVars,
                   held, mainVars>>

\* 'b' in the TimelineItems or LinkedChunk mode: App::back_paginate.
KeyBackPaginate ==
    /\ pc = "idle"
    /\ details_mode \in {"TimelineItems", "LinkedChunk"}
    /\ Free("rooms")
    /\ Free("timelines")
    /\ IF SelectedTimeline = None
       THEN /\ SetStatusMessage("missing timeline for room")
            /\ UNCHANGED pagVars
       ELSE /\ Len(pag_tasks) < MaxPaginations
            /\ pag_tasks' = Append(AbortPagination(pag_tasks, current_pagination),
                                   [room |-> Unwrap(SelectedTimeline), st |-> "inflight"])
            /\ current_pagination' = Some(Len(pag_tasks) + 1)
            /\ UNCHANGED statusVars
    /\ UNCHANGED <<backend, moreVars, rooms, selected, ui_rooms, timelines, feeders, listenVars,
                   held, mainVars>>

\* sdk_timeline.paginate_backwards(20).await returns in pagination task p
\* (an error is logged); the task ends.
PaginationReturn(p) ==
    /\ pag_tasks[p].st = "inflight"
    /\ pag_tasks' = [pag_tasks EXCEPT ![p].st = "done"]
    /\ UNCHANGED <<backend, moreVars, statusVars, current_pagination, rooms, selected, ui_rooms, timelines,
                   feeders, listenVars, held, mainVars>>

\* The key 'b' is read: its guarded arm calls back_paginate(); when the
\* guard is false the key falls to the arm _ => {}.
KeyB ==
    \/ KeyBackPaginate
    \/ /\ pc = "idle"
       /\ details_mode \notin {"TimelineItems", "LinkedChunk"}
       /\ UNCHANGED vars

\* The key 'm' is read: its guarded arm calls mark_as_read(); when the
\* guard is false the key falls to the arm _ => {}.
KeyM ==
    \/ KeyMarkAsRead
    \/ /\ pc = "idle"
       /\ details_mode # "ReadReceipts"
       /\ UNCHANGED vars

PaginationNext ==
    \/ KeyBackPaginate
    \/ \E p \in DOMAIN pag_tasks : PaginationReturn(p)

(***************************************************************************)
(* timeline_task: the feeder of one Timeline's items.                      *)
(***************************************************************************)
\* stream.next().await returns a batch in feeder f; the items lock is taken
\* and the first diff applied.  The guard is dropped when the last diff of
\* the batch has been applied.
FeederRecv(f) ==
    /\ feeders[f].st \in {"running", "abort_requested"}
    /\ feeders[f].diffs = <<>>
    /\ FreeItems(f)
    /\ \E batch \in StreamBatches(feeders[f].items, ItemKinds, MaxItems, MaxBatch) \ {<<>>} :
        /\ feeders' = [feeders EXCEPT ![f].items = Apply(Head(batch), @),
                                      ![f].diffs = Tail(batch)]
        /\ held' = IF Tail(batch) = <<>> THEN held ELSE held \cup {<<"feeder", "items", f>>}
    /\ UNCHANGED <<backend, opsVars, rooms, selected, ui_rooms, timelines, listenVars, mainVars>>

\* A loop step that keeps the guard when the batch is done.
FeederApply_KeepsGuard(f) ==
    /\ feeders[f].st # "cancelled"
    /\ feeders[f].diffs # <<>>
    /\ feeders' = [feeders EXCEPT ![f].items = Apply(Head(feeders[f].diffs), @),
                                  ![f].diffs = Tail(@)]
    /\ held' = held
    /\ UNCHANGED <<backend, opsVars, rooms, selected, ui_rooms, timelines, listenVars, mainVars>>

\* A loop step that takes the next diff of the batch and does not apply it.
FeederApply_Drops(f) ==
    /\ feeders[f].st # "cancelled"
    /\ feeders[f].diffs # <<>>
    /\ feeders' = [feeders EXCEPT ![f].diffs = Tail(@)]
    /\ held' = IF Tail(feeders[f].diffs) = <<>> THEN held \ {<<"feeder", "items", f>>} ELSE held
    /\ UNCHANGED <<backend, opsVars, rooms, selected, ui_rooms, timelines, listenVars, mainVars>>

\* for diff in diffs { diff.apply(&mut items) }, one diff, the guard held.
FeederApply(f) ==
    /\ feeders[f].st # "cancelled"
    /\ feeders[f].diffs # <<>>
    /\ feeders' = [feeders EXCEPT ![f].items = Apply(Head(feeders[f].diffs), @),
                                  ![f].diffs = Tail(@)]
    /\ held' = IF Tail(feeders[f].diffs) = <<>> THEN held \ {<<"feeder", "items", f>>} ELSE held
    /\ UNCHANGED <<backend, opsVars, rooms, selected, ui_rooms, timelines, listenVars, mainVars>>

\* Feeder f, abort() having been called on its handle while it was running,
\* is cancelled when stream.next().await suspends it.
FeederCancelled(f) ==
    /\ feeders[f].st = "abort_requested"
    /\ feeders[f].diffs = <<>>
    /\ feeders' = [feeders EXCEPT ![f].st = "cancelled"]
    /\ UNCHANGED <<backend, opsVars, rooms, selected, ui_rooms, timelines, listenVars, held,
                   mainVars>>

FeederNext ==
    \/ \E f \in DOMAIN feeders : FeederRecv(f)
    \/ \E f \in DOMAIN feeders : FeederApply(f)
    \/ \E f \in DOMAIN feeders : FeederCancelled(f)

(***************************************************************************)
(* App::run after render_loop returned.                                    *)
(***************************************************************************)
\* 'q' / Esc: render_loop returns; run is at self.sync_service.stop().await.
Quit ==
    /\ pc = "idle"
    /\ pc' = "stopping"
    /\ UNCHANGED <<backend, opsVars, rooms, selected, ui_rooms, timelines, feeders, listenVars, held, nav,
                   sub_room, current_room_subscription, details_mode>>

\* self.listen_task.abort();  A cancelled task's future is dropped with its
\* locals: the JoinHandles in new_timelines are dropped, which detaches
\* their tasks.
ShutdownAbortListen ==
    /\ pc = "stopping"
    /\ listen_task' = Aborted(listen_task, lpc \in ListenAwaitPcs)
    /\ IF listen_task' = "cancelled" /\ listen_task # "cancelled"
       THEN /\ all_rooms' = <<>>
            /\ previous_ui_rooms' = {}
            /\ new_ui_rooms' = {}
            /\ new_timelines' = <<>>
            /\ idx' = 0
       ELSE UNCHANGED <<all_rooms, previous_ui_rooms, new_ui_rooms, new_timelines, idx>>
    /\ pc' = "abort_timelines"
    /\ UNCHANGED <<backend, opsVars, rooms, selected, ui_rooms, timelines, feeders, lpc, diffs, held, nav,
                   sub_room, current_room_subscription, details_mode>>

\* for timeline in self.timelines.lock().unwrap().values() { timeline.task.abort(); }
ShutdownAbortTimelines ==
    /\ pc = "abort_timelines"
    /\ Free("timelines")
    /\ feeders' = [f \in DOMAIN feeders |->
                     IF \E r \in DOMAIN timelines : timelines[r] = f
                     THEN [feeders[f] EXCEPT !.st = Aborted(@, feeders[f].diffs = <<>>)]
                     ELSE feeders[f]]
    /\ pc' = "exited"
    /\ UNCHANGED <<backend, opsVars, rooms, selected, ui_rooms, timelines, listenVars, held, nav, sub_room,
                   current_room_subscription, details_mode>>

ShutdownNext ==
    \/ Quit
    \/ ShutdownAbortListen
    \/ ShutdownAbortTimelines
    \/ ListenCancelled

Next ==
    \/ ListenNext
    \/ NavNext
    \/ RenderNext
    \/ StatusNext
    \/ QueueNext
    \/ ReactNext
    \/ PaginationNext
    \/ FeederNext
    \/ ShutdownNext

Spec == Init /\ [][Next]_vars

\* The room list and the cursor: one room, lists of up to MaxLenOne entries.
SpecList == InitOne /\ [][ListenNext \/ NavNext \/ Render]_vars

\* Navigation and the room subscription, two rooms.
SpecNav == Init /\ [][ListenNext \/ NavNext \/ Render]_vars

\* The render pass in every details mode.
SpecRender == Init /\ [][ListenNext \/ NavNext \/ RenderNext]_vars

\* Shutdown at any point of the reconciliation loop.
SpecShutdown == Init /\ [][ListenNext \/ ShutdownNext]_vars

\* The stream delivers [Append(roomA)], then [Append(roomB)].
InitScenario ==
    \E a, b \in Rooms :
        InitStream([rooms |-> Rooms, max_len |-> MaxLen, infos |-> {NoNames}], <<>>,
                   << <<DAppend(<<a>>)>>, <<DAppend(<<b>>)>> >>)

\* A collection of any first content and any stream of batches.
InitDiffs ==
    \E initial \in Seqs(Rooms, MaxLen) :
        \E batches \in BatchLists(initial, Rooms, MaxLen, MaxDiffs, MaxBatches) :
            InitStream([rooms |-> Rooms, max_len |-> MaxLen, infos |-> {NoNames}], initial,
                       batches)

\* The batches of a stream, applied one at a time.
SpecDiffs == InitDiffs /\ [][ApplyNextBatch]_vars

\* The two batches and the navigation keys.
SpecScenario == InitScenario /\ [][ApplyNextBatch \/ NavNext]_vars

\* The operations that end in a status message, and the expiry tasks.
SpecStatus == InitSmall /\ [][ListenNext \/ NavNext \/ KeyMode \/ StatusNext]_vars

\* Back-pagination of the selected room.
SpecPaginate == InitSmall /\ [][ListenNext \/ NavNext \/ KeyMode \/ PaginationNext]_vars

\* The feeders, the readers of their items, and shutdown.
SpecFeed == InitSmall /\ [][ListenNext \/ NavNext \/ Render \/ FeederNext \/ ShutdownNext]_vars

\* An account of two rooms whose list shows one room at a time.
InitSwitch == InitWith([rooms |-> Rooms, max_len |-> 1, infos |-> {NoNames}])

\* Back-pagination while the selection moves between two rooms.
SpecSwitch == InitSwitch /\ [][ListenNext \/ NavNext \/ PaginationNext]_vars

\* The timeline initialisation of this step, if it is one, succeeds.
InitSucceeds == lpc = "init" => Len(feeders') = Len(feeders) + 1

\* The steps listen_task takes by itself once stream.next() has returned.
ListenProgress ==
    \/ ListenApply
    \/ ListenSnapshot
    \/ ListenInfo
    \/ ListenInit /\ InitSucceeds
    \/ ListenMergeUi
    \/ ListenMergeTimelines

\* No timeline initialisation fails, and the runtime goes on polling
\* listen_task, spawned on it, whenever the task can take a step; the stream
\* need not emit another batch.
SpecLive ==
    /\ InitSwitch
    /\ [][ListenRecv \/ ListenProgress \/ NavNext \/ Render]_vars
    /\ WF_vars(ListenProgress)

\* What the backend may answer about a room: no names and not a DM; both
\* names and a lookup that fails; a display name only and a DM.
Answers ==
    {NoNames,
     [raw_name |-> Some("name"), display_name |-> Some("display"), is_direct |-> Err],
     [raw_name |-> None, display_name |-> Some("display"), is_direct |-> Ok(TRUE)]}

\* The state App::new returns, for an account of two rooms whose names and
\* DM lookups vary.
InitInfo == InitWith([rooms |-> Rooms, max_len |-> MaxLen, infos |-> Answers])

\* The reconciliation loop with room infos that change.
SpecInfo == InitInfo /\ [][ListenNext]_vars

\* The feeders of two rooms.
SpecFeeders ==
    InitSwitch /\ [][\/ ListenNext
                     \/ \E f \in DOMAIN feeders : FeederRecv(f)
                     \/ \E f \in DOMAIN feeders : FeederApply(f)]_vars

\* The four operations on the selected room.
SpecOps ==
    InitSmall /\ [][\/ ListenNext
                    \/ NavNext
                    \/ KeyMode
                    \/ KeySend
                    \/ SendReturn
                    \/ KeyMarkAsRead
                    \/ MarkAsReadReturn
                    \/ KeyReact
                    \/ PaginationNext]_vars

\* Every task that holds a guard over more than one step: the render loop in
\* every mode, with navigation, the reconciliation loop, the feeders and
\* shutdown.
SpecLocks ==
    InitSmall /\ [][\/ ListenNext
                    \/ NavNext
                    \/ RenderNext
                    \/ FeederNext
                    \/ ShutdownNext]_vars

\* The reconciliation loop by itself.
SpecListen == Init /\ [][ListenNext]_vars

\* Sending a message and toggling the send queue.
SpecQueue == InitSmall /\ [][ListenNext \/ NavNext \/ KeySend \/ SendReturn \/ QueueNext]_vars

\* The feeders and the reaction to the newest message.
SpecReact ==
    InitSmall /\ [][\/ ListenNext
                    \/ NavNext
                    \/ ReactNext
                    \/ \E f \in DOMAIN feeders : FeederRecv(f)
                    \/ \E f \in DOMAIN feeders : FeederApply(f)]_vars

(***************************************************************************)
(* The selection cursor.                                                   *)
(***************************************************************************)
InBounds(sel, n) == IF n = 0 THEN sel = None ELSE IsSome(sel) /\ Unwrap(sel) < n

\* C1, as stated (read in its weaker sense, which lets the cursor be None
\* on a non-empty list before the first key press): in every reachable
\* state the cursor is None when the room list is empty and, when it is set,
\* an index strictly less than the list's length.
C1_CursorAlwaysValid ==
    IF rooms = <<>> THEN selected = None
    ELSE selected = None \/ Unwrap(selected) < Len(rooms)

\* C1, amended: when next() has returned, the cursor is None if the length
\* the call read was 0 and an index strictly less than that length
\* otherwise; when previous() has returned the same holds, provided the
\* cursor before the call was None or at most that length.
C1_CursorValidAfterNavigation ==
    (/\ pc = "nav_done"
     /\ (nav.dir = "next" \/ nav.prev = None \/ Unwrap(nav.prev) <= nav.num_items))
        => InBounds(selected, nav.num_items)

\* next() was called with a stale cursor, at or past the end of a list that
\* diff batches had shortened.
C1_Witness ==
    /\ pc = "nav_done"
    /\ nav.dir = "next"
    /\ nav.num_items > 0
    /\ IsSome(nav.prev)
    /\ Unwrap(nav.prev) >= nav.num_items

\* previous() leaves a stale cursor stale when it was more than one past
\* the end of the list.
StaleAfterPrevious ==
    /\ pc = "nav_done"
    /\ nav.dir = "previous"
    /\ nav.num_items > 0
    /\ ~InBounds(selected, nav.num_items)

\* C10, as stated: on a list of N >= 1 items next() from index N-1 selects
\* and returns 0, previous() from index 0 selects and returns N-1, and on a
\* 1-item list both return "no change".
C10_WrapAroundAsStated ==
    pc = "nav_done" =>
        /\ (nav.dir = "next" /\ nav.num_items >= 1 /\ nav.prev = Some(nav.num_items - 1))
              => (selected = Some(0) /\ nav.ret = Some(0))
        /\ (nav.dir = "previous" /\ nav.num_items >= 1 /\ nav.prev = Some(0))
              => (selected = Some(nav.num_items - 1) /\ nav.ret = Some(nav.num_items - 1))
        /\ (nav.num_items = 1 /\ nav.prev = Some(0)) => nav.ret = None

\* C10, amended: on a list of N >= 2 items next() from index N-1 selects and
\* returns 0 and previous() from index 0 selects and returns N-1; on a
\* 1-item list whose item is selected both return "no change" and leave
\* index 0 selected.
C10_WrapAround ==
    pc = "nav_done" =>
        /\ (nav.dir = "next" /\ nav.num_items >= 2 /\ nav.prev = Some(nav.num_items - 1))
              => (selected = Some(0) /\ nav.ret = Some(0))
        /\ (nav.dir = "previous" /\ nav.num_items >= 2 /\ nav.prev = Some(0))
              => (selected = Some(nav.num_items - 1) /\ nav.ret = Some(nav.num_items - 1))
        /\ (nav.num_items = 1 /\ nav.prev = Some(0))
              => (selected = Some(0) /\ nav.ret = None)

\* previous() was called at index 0 of a list of three.
C10_Witness ==
    /\ pc = "nav_done"
    /\ nav.dir = "previous"
    /\ nav.num_items = 3
    /\ nav.prev = Some(0)
    /\ nav.ret = Some(2)

\* C11: when next() or previous() has returned from a call that read an
\* empty list, the cursor is None and the call returned "no change",
\* whatever the cursor was before the call.
C11_EmptyListClears ==
    (pc = "nav_done" /\ nav.num_items = 0) => (selected = None /\ nav.ret = None)

\* previous() was called on an empty list with a stale cursor, left from
\* when the list was not empty.
C11_Witness ==
    /\ pc = "nav_done"
    /\ nav.dir = "previous"
    /\ nav.num_items = 0
    /\ IsSome(nav.prev)

\* C12: with the room list empty at first, after the batch [Append(roomA)]
\* the list is [roomA] and after the batch [Append(roomB)] it is
\* [roomA, roomB]; on that list next() selects and returns index 0 from no
\* selection, index 1 from index 0, and index 0 again from index 1.
C12_AppendThenNext ==
    LET roomA == stream_batches[1][1].values[1]
        roomB == stream_batches[2][1].values[1]
    IN /\ stream_pos = 1 => rooms = <<roomA>>
       /\ stream_pos = 2 => rooms = <<roomA, roomB>>
       /\ (pc = "nav_done" /\ nav.dir = "next" /\ nav.num_items = 2) =>
              /\ nav.prev = None => (selected = Some(0) /\ nav.ret = Some(0))
              /\ nav.prev = Some(0) => (selected = Some(1) /\ nav.ret = Some(1))
              /\ nav.prev = Some(1) => (selected = Some(0) /\ nav.ret = Some(0))

\* Both batches have been applied and next() has wrapped from index 1 to
\* index 0.
C12_Witness ==
    /\ stream_pos = 2
    /\ rooms = <<"r1", "r2">>
    /\ pc = "nav_done"
    /\ nav.dir = "next"
    /\ nav.num_items = 2
    /\ nav.prev = Some(1)
    /\ selected = Some(0)

\* The batches, end to end, as one batch.
RECURSIVE Concat(_)
Concat(batches) == IF batches = <<>> THEN <<>> ELSE Head(batches) \o Concat(Tail(batches))

\* C13: for every first content and every list of batches, the collection
\* the batches applied so far, one at a time, have produced is the one
\* that their concatenation, applied as one batch to the first content,
\* produces.
C13_BatchesConcatenate ==
    rooms = ApplyBatch(Concat(SubSeq(stream_batches, 1, stream_pos)), stream_initial)

\* Two batches, of two diffs and of one, have been applied, and each
\* changed the collection.
C13_Witness ==
    /\ stream_pos = 2
    /\ Len(stream_batches[1]) = 2
    /\ Len(stream_batches[2]) = 1
    /\ ApplyBatch(stream_batches[1], stream_initial) # stream_initial
    /\ rooms # ApplyBatch(stream_batches[1], stream_initial)

(***************************************************************************)
(* The room subscription.                                                  *)
(***************************************************************************)
\* C9: inside subscribe_to_selected_room(i) the recorded subscription is
\* released before the room is looked up, and when the call has returned
\* the recorded subscription is the room read at index i if ui_rooms holds
\* it and none otherwise (none, in particular, when index i is not in the
\* list): the room recorded before the call never stays recorded.
C9_SubscriptionSwitch ==
    /\ [](pc = "sub_lookup" => current_room_subscription = None)
    /\ [](pc = "sub_done" =>
            /\ sub_room = None => current_room_subscription = None
            /\ IsSome(current_room_subscription) =>
                  (current_room_subscription = sub_room
                      /\ Unwrap(current_room_subscription) \in ui_rooms))
    /\ [][pc = "sub_lookup" /\ pc' = "sub_done" =>
            current_room_subscription' = Resolved(sub_room, ui_rooms)]_vars

\* The cursor moved from one index to another and the room at the new index
\* has been recorded.
C9_Witness ==
    /\ pc = "sub_done"
    /\ IsSome(nav.prev)
    /\ nav.ret # nav.prev
    /\ IsSome(current_room_subscription)

\* The cursor moved to an index that no longer is in the list.
SubscriptionUnresolved ==
    /\ pc = "sub_done"
    /\ sub_room = None

(***************************************************************************)
(* Timelines and their feeder tasks.                                       *)
(***************************************************************************)
FeedersOf(r) == {f \in DOMAIN feeders : feeders[f].room = r}

\* No room has had two feeder tasks spawned for it.
OneFeederPerRoom == \A r \in Rooms : Cardinality(FeedersOf(r)) <= 1

\* C7: for every room id the reconciliation loop creates a Timeline and
\* spawns its feeder task at most once, also when the room occurs more than
\* once in the room list, and the registry's entry for a room is the first
\* Timeline created for it: it is never replaced.
C7_TimelineCreatedOnce ==
    /\ OneFeederPerRoom
    /\ \A r \in DOMAIN timelines : \A f \in FeedersOf(r) : timelines[r] <= f

\* The room list holds no room twice.
NoDuplicateRooms == \A i, j \in DOMAIN rooms : rooms[i] = rooms[j] => i = j

\* C8 (for the runs in which the room list holds no room twice and no room
\* got two feeders): when run() has finished its shutdown sequence, abort()
\* has been called on listen_task and, once that task is gone, on every
\* feeder task that was ever spawned.
C8_AllTasksAbortedAtExit ==
    (pc = "exited" /\ NoDuplicateRooms /\ OneFeederPerRoom) =>
        /\ listen_task # "running"
        /\ (listen_task = "cancelled" => \A f \in DOMAIN feeders : feeders[f].st # "running")

(***************************************************************************)
(* Status-expiry tasks.                                                    *)
(***************************************************************************)
\* The expiry tasks that are pending: suspended in their sleep.
Sleeping == {t \in DOMAIN status_tasks : status_tasks[t].st = "sleeping"}

C4_MessageStaysUntilDelayElapsed ==
    (/\ IsSome(clear_status_message)
     /\ status_tasks[Unwrap(clear_status_message)].st = "sleeping")
        => IsSome(last_status_message)

(***************************************************************************)
(* Pagination tasks.                                                       *)
(***************************************************************************)
Inflight == {p \in DOMAIN pag_tasks : pag_tasks[p].st = "inflight"}

\* C5: at every moment at most one pagination task is in flight, it is the
\* one held in current_pagination and the most recently started one: no
\* task started before it can still run to completion.
C5_OnePaginationInFlight ==
    /\ Cardinality(Inflight) <= 1
    /\ \A p \in Inflight : current_pagination = Some(p) /\ p = Len(pag_tasks)

\* back_paginate was called three times with a timeline: the first task was
\* aborted in flight, the second had completed, the third is in flight.
C5_Witness ==
    /\ Len(pag_tasks) = 3
    /\ pag_tasks[1].st = "cancelled"
    /\ pag_tasks[2].st = "done"
    /\ pag_tasks[3].st = "inflight"

(***************************************************************************)
(* Diff batches.                                                           *)
(***************************************************************************)
\* C6: a collection has only a prefix of a batch applied only while the
\* task that applies the batch holds the collection's lock, a cancelled
\* task never leaves a batch partly applied, and next()/previous() and
\* get_selected_room_id never read the room list in such a state.
C6_BatchesAtomic ==
    /\ [](/\ diffs # <<>> => <<"listen", "rooms", 0>> \in held
          /\ listen_task = "cancelled" => diffs = <<>>
          /\ \A f \in DOMAIN feeders :
                /\ feeders[f].diffs # <<>> => <<"feeder", "items", f>> \in held
                /\ feeders[f].st = "cancelled" => feeders[f].diffs = <<>>)
    /\ [][(pc' # pc /\ pc' \in {"nav_done", "sub_lookup"}) => diffs = <<>>]_vars

\* abort() was called on the reconciliation task and on a feeder while
\* each was in the middle of a batch.
C6_Witness ==
    /\ listen_task = "abort_requested"
    /\ diffs # <<>>
    /\ \E f \in DOMAIN feeders :
          feeders[f].st = "abort_requested" /\ feeders[f].diffs # <<>>

(***************************************************************************)
(* Locks and suspension points.                                            *)
(***************************************************************************)
\* The task is suspended on, or blocked in, a call to the backend.
InBackendCall(task, n) ==
    CASE task = "main" -> pc \in {"render_backend", "stopping", "sending", "marking", "reacting",
                                "toggling"}
      [] task = "listen" -> lpc \in ListenAwaitPcs
      [] task = "feeder" -> feeders[n].diffs = <<>>
      [] OTHER -> FALSE

\* C2: no task holds a lock on shared state while it is suspended on or
\* blocked in a backend call.
C2_NoLockAcrossBackendCall == \A h \in held : ~InBackendCall(h[1], h[3])

(***************************************************************************)
(* Reactions.                                                              *)
(***************************************************************************)
\* What toggle_reaction_to_latest_msg is to do in the current state.
ReactOutcome ==
    IF SelectedTimeline = None
    THEN /\ last_status_message' = Some("missing timeline for room")
         /\ pc' = "idle"
    ELSE LET items == feeders[timelines[Unwrap(SelectedTimeline)]].items
         IN IF \A i \in 1..Len(items) : items[i] # "msg"
            THEN /\ last_status_message' = Some("no item to react to")
                 /\ pc' = "idle"
            ELSE /\ pc' = "reacting"
                 /\ IsSome(item_id')
                 /\ items[Unwrap(item_id') + 1] = "msg"
                 /\ \A i \in 1..Len(items) : i > Unwrap(item_id') + 1 => items[i] # "msg"
                 /\ UNCHANGED last_status_message

\* C14: toggle_reaction_to_latest_msg targets the newest item of the
\* selected room's items that is a message event; when no item is one it
\* reports "no item to react to" and makes no backend call, and when the
\* room has no timeline it reports "missing timeline for room".
C14_ReactsToNewestMessage == [][KeyReact => ReactOutcome]_vars

\* The reaction goes to the newer of two messages.
C14_Witness ==
    /\ pc = "reacting"
    /\ item_id = Some(1)
    /\ \E f \in DOMAIN feeders : feeders[f].items = <<"msg", "msg">>

\* Only a marker to react to: the status says so and nothing is awaited.
C14_WitnessNoItem ==
    /\ pc = "idle"
    /\ last_status_message = Some("no item to react to")
    /\ \E f \in DOMAIN feeders : feeders[f].items = <<"marker">>

(***************************************************************************)
(* Back-pagination and the selection.                                      *)
(***************************************************************************)
\* The selected index is in the list and the room there has a timeline.
SelectionHasTimeline ==
    /\ IsSome(selected)
    /\ Unwrap(selected) < Len(rooms)
    /\ rooms[Unwrap(selected) + 1] \in DOMAIN timelines

\* A new pagination task was spawned and recorded in current_pagination.
PaginationStarted ==
    /\ Len(pag_tasks') = Len(pag_tasks) + 1
    /\ pag_tasks'[Len(pag_tasks')].st = "inflight"
    /\ current_pagination' = Some(Len(pag_tasks'))

\* C15: a change of the selection or of the room subscription neither
\* aborts nor replaces the task held in current_pagination; a task in
\* flight is cancelled, and the held task replaced, only by a back_paginate
\* call that resolves a timeline and starts a new task.
C15_SelectionKeepsPagination ==
    [][/\ (selected' # selected \/ current_room_subscription' # current_room_subscription
            \/ nav' # nav \/ sub_room' # sub_room)
          => UNCHANGED pagVars
       /\ ((\E p \in Inflight : pag_tasks'[p].st = "cancelled")
            \/ current_pagination' # current_pagination)
          => (SelectionHasTimeline /\ PaginationStarted)]_vars

\* A pagination started for one room is in flight while the other room is
\* selected and subscribed to.
C15_Witness ==
    /\ pc = "idle"
    /\ IsSome(SelectedRoomId(None))
    /\ current_room_subscription = SelectedRoomId(None)
    /\ \E p \in Inflight : /\ current_pagination = Some(p)
                            /\ pag_tasks[p].room # Unwrap(SelectedRoomId(None))

(***************************************************************************)
(* Failures of backend calls.                                              *)
(***************************************************************************)
\* C16: no failure of a backend call panics a task: the render loop is
\* never ended by an error that room.event_cache() returns to the render
\* pass.
C16_NoPanic == pc # "panicked"

(***************************************************************************)
(* The status after a backend command.                                     *)
(***************************************************************************)
\* set_status_message was called in this step.
StatusReported ==
    /\ Len(status_tasks') = Len(status_tasks) + 1
    /\ IsSome(last_status_message')
    /\ clear_status_message' = Some(Len(status_tasks'))

\* C17: when the send-message operation or the toggle of the send queue
\* completes, a status message that reports its outcome is set.
C17_StatusAfterCommand ==
    [][((pc \in {"sending", "toggling"} /\ pc' = "idle") \/ KeySend) /\ pc' = "idle"
          => StatusReported]_vars

(***************************************************************************)
(* The details mode.                                                       *)
(***************************************************************************)
\* C18: the details mode is always one of the four modes; a step that
\* changes it is the handling of a key by the idle render loop and changes
\* nothing else: not the selection, the subscription, the pagination task,
\* the status message or the registries; no other step changes the mode.
C18_ModeChangesNothingElse ==
    [][/\ details_mode \in DetailsModes
       /\ details_mode' \in DetailsModes
       /\ details_mode' # details_mode
          => /\ pc = "idle"
             /\ KeyMode
             /\ UNCHANGED <<backend, opsVars, rooms, selected, ui_rooms, timelines, feeders,
                            listenVars, held, pc, nav, sub_room, current_room_subscription>>]_vars

\* The mode was changed while a room was selected and subscribed to, a
\* status message was shown and a pagination was in flight.
C18_Witness ==
    /\ details_mode = "ReadReceipts"
    /\ IsSome(selected)
    /\ IsSome(current_room_subscription)
    /\ IsSome(last_status_message)
    /\ Inflight # {}

(***************************************************************************)
(* Eventual visibility.                                                    *)
(***************************************************************************)
InList(r) == \E i \in 1..Len(rooms) : rooms[i] = r

Registered(r) == r \in DOMAIN room_info /\ r \in ui_rooms /\ r \in DOMAIN timelines

\* C19: under fair scheduling and with no initialisation failure, every
\* batch the stream has emitted is eventually applied in full to the room
\* list, and every room in the list eventually has its entries in
\* room_info, ui_rooms and timelines, unless it leaves the list before.
C19_EventuallyVisible ==
    /\ (diffs # <<>>) ~> (diffs = <<>>)
    /\ \A r \in Rooms : InList(r) ~> (~InList(r) \/ Registered(r))

\* A frame is drawn with the cursor on a room of the list whose timeline is
\* not registered yet.
C19_Witness ==
    /\ pc = "idle"
    /\ lpc = "merge_tl"
    /\ IsSome(SelectedRoomId(None))
    /\ Unwrap(SelectedRoomId(None)) \notin DOMAIN timelines
    /\ \E i \in 1..Len(new_timelines) : new_timelines[i][1] = Unwrap(SelectedRoomId(None))

(***************************************************************************)
(* A timeline initialisation that fails.                                   *)
(***************************************************************************)
\* The step ends the initialisation of all_rooms[idx].
InitEnds == lpc = "init" /\ (idx' # idx \/ lpc' # lpc)

\* The step goes to the next new room of the batch, or past the last one:
\* no room after position from that is not in the snapshot of ui_rooms is
\* passed over.
NoNewRoomPassedOver(from) ==
    /\ \A j \in from..(IF idx' = 0 THEN Len(all_rooms) ELSE idx' - 1) :
          all_rooms[j] \in previous_ui_rooms
    /\ idx' # 0 => /\ idx' \in from..Len(all_rooms)
                   /\ all_rooms[idx'] \notin previous_ui_rooms
                   /\ lpc' = "init"
    /\ idx' = 0 => lpc' = "merge_ui"

\* C20: a timeline initialisation that fails leaves the room without a
\* Timeline entry, a ui_rooms entry and a feeder task; the loop goes on to
\* the remaining new rooms of the batch, which are initialised and
\* registered; and in every batch each room of the list that is not in
\* ui_rooms, so each room whose initialisation has failed so far, is
\* attempted.
C20_FailedInitSkippedAndRetried ==
    [][/\ (InitEnds /\ feeders' = feeders)
          => UNCHANGED <<new_timelines, new_ui_rooms, ui_rooms, timelines>>
       /\ (InitEnds /\ feeders' # feeders)
          => /\ Len(feeders') = Len(feeders) + 1
             /\ feeders'[Len(feeders')].room = all_rooms[idx]
             /\ new_timelines' = Append(new_timelines, <<all_rooms[idx], Len(feeders')>>)
             /\ new_ui_rooms' = new_ui_rooms \cup {all_rooms[idx]}
       /\ InitEnds => NoNewRoomPassedOver(idx + 1)
       /\ (lpc = "info" /\ lpc' # "info") => NoNewRoomPassedOver(1)
       /\ (lpc = "prev" /\ lpc' # "prev") => previous_ui_rooms' = ui_rooms
       /\ lpc = "merge_ui" => (lpc' = "merge_ui" \/ ui_rooms' = ui_rooms \cup new_ui_rooms)
       /\ lpc = "merge_tl"
          => (lpc' = "merge_tl"
              \/ \A i \in 1..Len(new_timelines) : new_timelines[i][1] \in DOMAIN timelines')
       /\ \A r \in Rooms :
             FeedersOf(r) = {} => (r \notin ui_rooms /\ r \notin DOMAIN timelines
                                  /\ r \notin previous_ui_rooms)]_vars

\* The initialisation of the first of two new rooms of a batch failed and
\* the second has been initialised.
C20_Witness ==
    /\ lpc = "merge_ui"
    /\ Len(all_rooms) = 2
    /\ all_rooms[1] # all_rooms[2]
    /\ all_rooms[1] \notin previous_ui_rooms \cup new_ui_rooms
    /\ FeedersOf(all_rooms[1]) = {}
    /\ all_rooms[2] \in new_ui_rooms

(***************************************************************************)
(* The room infos.                                                         *)
(***************************************************************************)
\* The step ends the room info update of all_rooms[idx].
InfoEnds == lpc = "info" /\ (idx' # idx \/ lpc' # lpc)

\* C21: when is_direct() fails for a room, the room's info is stored with
\* is_dm unknown and with the raw name and the display name that were read,
\* and the loop goes on: to the info of the next room of the batch, or, after
\* the last room, to the timeline initialisation of the new rooms.
C21_FailedLookupStoresUnknown ==
    [][(InfoEnds /\ Unwrap(pending_info).is_direct = Err)
          => /\ room_info'[all_rooms[idx]] =
                    [raw_name |-> Unwrap(pending_info).raw_name,
                     display_name |-> Unwrap(pending_info).display_name,
                     is_dm |-> None]
             /\ listen_task' = listen_task
             /\ idx < Len(all_rooms) => (lpc' = "info" /\ idx' = idx + 1)
             /\ idx = Len(all_rooms) => NoNewRoomPassedOver(1)]_vars

\* The lookup failed for the first of two new rooms of a batch; the info of
\* the second has been stored and its timeline initialisation is under way.
C21_Witness ==
    /\ lpc = "init"
    /\ idx = 2
    /\ previous_ui_rooms = {}
    /\ Len(all_rooms) = 2
    /\ all_rooms[1] # all_rooms[2]
    /\ room_info[all_rooms[1]] =
          [raw_name |-> Some("name"), display_name |-> Some("display"), is_dm |-> None]
    /\ room_info[all_rooms[2]].is_dm = Some(TRUE)

\* The info made of the three values read for the room whose lookup is
\* awaited.
InfoRead ==
    LET read == Unwrap(pending_info)
    IN [raw_name |-> read.raw_name,
        display_name |-> read.display_name,
        is_dm |-> IF read.is_direct = Err THEN None ELSE Some(read.is_direct[2])]

\* C22: in every batch the info update goes through all the rooms of the
\* resulting list, new or seen before, from the first to the last, and
\* stores for each an entry whose three fields are the values read in this
\* batch, whatever entry the room had; so when the batch has been processed
\* every room of the list has an entry and no field of an older entry is
\* left.
C22_InfoOverwritten ==
    [][/\ (lpc = "prev" /\ lpc' # "prev" /\ all_rooms # <<>>) => (lpc' = "info" /\ idx' = 1)
       /\ InfoEnds
          => /\ room_info'[all_rooms[idx]] = InfoRead
             /\ \A r \in DOMAIN room_info' \ {all_rooms[idx]} :
                   r \in DOMAIN room_info /\ room_info'[r] = room_info[r]
             /\ idx < Len(all_rooms) => (lpc' = "info" /\ idx' = idx + 1)
             /\ lpc' # "info" => idx = Len(all_rooms)
       /\ lpc # "info" => room_info' = room_info
       /\ lpc' \in {"init", "merge_ui", "merge_tl"}
          => \A i \in 1..Len(all_rooms') : all_rooms'[i] \in DOMAIN room_info']_vars

\* A batch has been processed whose list holds a room seen before, its
\* entry now made of a failed lookup and both names, and a new room.
C22_Witness ==
    /\ lpc = "merge_tl"
    /\ Len(all_rooms) = 2
    /\ all_rooms[1] \in previous_ui_rooms
    /\ all_rooms[2] \notin previous_ui_rooms
    /\ room_info[all_rooms[1]] =
          [raw_name |-> Some("name"), display_name |-> Some("display"), is_dm |-> None]
    /\ all_rooms[2] \in DOMAIN room_info

\* C25: an entry of room_info is never removed, and it changes only in the
\* info update of a batch whose resulting list holds its room: after a batch
\* has removed the room from the list the entry stays as the last such
\* batch left it.
C25_InfoNeverRemoved ==
    [][\A r \in DOMAIN room_info :
          /\ r \in DOMAIN room_info'
          /\ room_info'[r] # room_info[r]
             => (lpc = "info" /\ all_rooms[idx] = r /\ InList(r))]_vars

\* A batch that removed "r1" from the list and left "r2" in it has been
\* processed; the entry of "r1" is there, and is not the one of "r2".
C25_Witness ==
    /\ lpc = "wait"
    /\ rooms = <<"r2">>
    /\ "r1" \in DOMAIN room_info
    /\ "r1" \in ui_rooms
    /\ room_info["r1"] # room_info["r2"]

(***************************************************************************)
(* The writers of the collections.                                         *)
(***************************************************************************)
\* Feeder f takes a step of its loop for a batch: the next diff of the batch
\* it is in, or the first diff of a batch that its stream delivers, is
\* applied to its own items.
FeederWrites(f) ==
    /\ feeders[f].st # "cancelled"
    /\ IF feeders[f].diffs # <<>>
       THEN /\ feeders'[f].items = Apply(Head(feeders[f].diffs), feeders[f].items)
            /\ feeders'[f].diffs = Tail(feeders[f].diffs)
       ELSE \E d \in StreamDiffs(feeders[f].items, ItemKinds, MaxItems) :
               feeders'[f].items = Apply(d, feeders[f].items)

\* C23: the items of a Timeline change, and the diffs of a batch are used
\* up, only in a step of the Timeline's own feeder, which applies the diffs
\* of its stream in the order received and leaves every other Timeline's
\* items alone; the room list changes only in a step of the reconciliation
\* task, which applies its diffs in the order received.
C23_OneWriterInOrder ==
    [][/\ \A f \in DOMAIN feeders :
             (feeders'[f].items # feeders[f].items \/ feeders'[f].diffs # feeders[f].diffs)
                => /\ FeederWrites(f)
                   /\ \A g \in DOMAIN feeders \ {f} : feeders'[g] = feeders[g]
                   /\ rooms' = rooms
       /\ (rooms' # rooms \/ diffs' # diffs)
             => /\ listen_task # "cancelled"
                /\ feeders' = feeders
                /\ IF diffs # <<>>
                   THEN rooms' = Apply(Head(diffs), rooms) /\ diffs' = Tail(diffs)
                   ELSE /\ lpc = "wait"
                        /\ \E d \in StreamDiffs(rooms, backend.rooms, backend.max_len) :
                              rooms' = Apply(d, rooms)]_vars

\* The Timelines of two rooms are registered and the feeder of each is in
\* the middle of a batch.
C23_Witness ==
    /\ DOMAIN timelines = Rooms
    /\ timelines["r1"] # timelines["r2"]
    /\ \A r \in Rooms : feeders[timelines[r]].diffs # <<>> /\ feeders[timelines[r]].items # <<>>

(***************************************************************************)
(* Null moves.                                                             *)
(***************************************************************************)
\* subscribe_to_selected_room is called only after a call that changed the
\* selection; a key press that left it unchanged ends with
\* current_room_subscription as it was.
SubscribeOnlyOnChange ==
    [][/\ (pc # "sub_lookup" /\ pc' = "sub_lookup") => selected # nav.prev
       /\ (pc = "nav_done" /\ selected = nav.prev)
             => (pc' \in {"nav_done", "idle"}
                 /\ current_room_subscription' = current_room_subscription)]_vars

NoRoomIn(registry) ==
    ~(/\ IsSome(selected)
      /\ Unwrap(selected) < Len(rooms)
      /\ rooms[Unwrap(selected) + 1] \in registry)

\* The step sets the status message, makes no backend call and changes
\* nothing else.
NoOpWithStatus(status) ==
    /\ pc' = "idle"
    /\ StatusReported
    /\ last_status_message' = Some(status)
    /\ UNCHANGED <<backend, pagVars, moreVars, rooms, selected, ui_rooms, timelines, feeders,
                   listenVars, held, mainVars>>

\* C26: mark_as_read without a selected room that ui_rooms holds, and
\* send-message, toggle_reaction_to_latest_msg and back_paginate without a
\* selected room that timelines holds, make no backend call, set a status
\* message and change nothing else; back_paginate then leaves the pagination
\* in flight as it is.
C26_NoOpWithoutRoom ==
    [][/\ (KeyMarkAsRead /\ NoRoomIn(ui_rooms))
             => NoOpWithStatus("missing room or nothing to show")
       /\ ((KeySend \/ KeyReact \/ KeyBackPaginate) /\ NoRoomIn(DOMAIN timelines))
             => NoOpWithStatus("missing timeline for room")]_vars

\* An operation found no timeline, the cursor being past the end of the
\* list, and the pagination started before is in flight.
C26_Witness ==
    /\ pc = "idle"
    /\ last_status_message = Some("missing timeline for room")
    /\ IsSome(selected)
    /\ Unwrap(selected) >= Len(rooms)
    /\ Inflight # {}
    /\ current_pagination = Some(Len(pag_tasks))

(***************************************************************************)
(* Lock order.                                                             *)
(***************************************************************************)
\* The shared mutexes the next step of a task may request (for a feeder, n
\* is the feeder and "items" the lock of its Timeline's items).
Wants(task, n) ==
    CASE task = "listen" ->
            IF listen_task = "cancelled" THEN {}
            ELSE CASE lpc = "wait" -> {"rooms"}
                   [] lpc = "prev" -> {"ui_rooms"}
                   [] lpc = "info" -> {"room_info"}
                   [] lpc = "merge_ui" -> {"ui_rooms"}
                   [] lpc = "merge_tl" -> {"timelines"}
                   [] OTHER -> {}
      [] task = "main" ->
            CASE pc = "idle" -> {"rooms", "room_info", "ui_rooms", "timelines", "items",
                                 "current_pagination", "last_status_message"}
              [] pc = "nav_done" /\ nav.ret # None -> {"rooms"}
              [] pc = "sub_lookup" -> {"ui_rooms"}
              [] pc = "abort_timelines" -> {"timelines"}
              [] OTHER -> {}
      [] task = "feeder" ->
            IF feeders[n].st # "cancelled" /\ feeders[n].diffs = <<>> THEN {"items"} ELSE {}
      [] OTHER -> {}

\* C27: a task that holds a guard of a shared mutex holds no other one and
\* is at a point where its next step requests no mutex and is not waiting
\* for anything but itself; so there is no cycle of tasks that wait for each
\* other's locks.
C27_NoNestedLocks ==
    /\ \A h \in held : Wants(h[1], h[3]) = {}
    /\ \A h1, h2 \in held : (h1[1] = h2[1] /\ h1[3] = h2[3]) => h1 = h2
    /\ \A h \in held :
          CASE h[1] = "listen" -> lpc = "apply" /\ diffs # <<>> /\ listen_task # "cancelled"
            [] h[1] = "main" -> pc = "render_backend"
            [] h[1] = "feeder" -> feeders[h[3]].diffs # <<>> /\ feeders[h[3]].st # "cancelled"
            [] OTHER -> FALSE

\* The render pass, the reconciliation loop and a feeder each hold a guard,
\* of three different mutexes.
C27_Witness ==
    /\ <<"main", "ui_rooms", 0>> \in held
    /\ <<"listen", "rooms", 0>> \in held
    /\ \E f \in DOMAIN feeders : <<"feeder", "items", f>> \in held

(***************************************************************************)
(* The two registries.                                                     *)
(***************************************************************************)
\* C28: every room that has a timeline is in ui_rooms, and while
\* listen_task is at stream.next().await the two maps have the same keys.
C28_TimelinesWithinUiRooms ==
    /\ DOMAIN timelines \subseteq ui_rooms
    /\ lpc = "wait" => DOMAIN timelines = ui_rooms

\* Between the two extends a room is in ui_rooms that has no timeline yet.
C28_Witness ==
    /\ lpc = "merge_tl"
    /\ new_timelines # <<>>
    /\ DOMAIN timelines # ui_rooms
    /\ timelines # <<>>

(***************************************************************************)
(* The subscription and the cursor.                                        *)
(***************************************************************************)
\* C29: whenever render_loop is waiting for a key and
\* current_room_subscription holds a room, that room is the one at the
\* cursor's index in the room list, also after listen_task has applied
\* diffs to the list under a cursor that did not move.
C29_SubscriptionAtCursor ==
    (pc = "idle" /\ IsSome(current_room_subscription)) =>
        (IsSome(selected) /\ Get(rooms, Unwrap(selected)) = current_room_subscription)

(***************************************************************************)
(* The keys 'b' and 'm'.                                                   *)
(***************************************************************************)
\* The mode keys and the keys 'b' and 'm', on the selected room.
SpecKeys ==
    InitSmall /\ [][\/ ListenNext
                    \/ NavNext
                    \/ KeyMode
                    \/ KeyB
                    \/ KeyM
                    \/ MarkAsReadReturn
                    \/ \E p \in DOMAIN pag_tasks : PaginationReturn(p)]_vars

\* This step of the main task sets the status message to msg.
StatusSet(msg) ==
    /\ pc = "idle"
    /\ statusVars' # statusVars
    /\ last_status_message' = Some(msg)

\* C30: a step in which back_paginate() acts (a pagination task is spawned,
\* the recorded pagination changes, or its status message is set) is taken
\* in details mode TimelineItems or LinkedChunk, and a step in which
\* mark_as_read() acts (the receipt is being sent, or its status message is
\* set) is taken in details mode ReadReceipts; in the other modes the keys
\* change nothing.
C30_KeysGuardedByMode ==
    /\ [][(\/ current_pagination' # current_pagination
           \/ Len(pag_tasks') # Len(pag_tasks)
           \/ StatusSet("missing timeline for room"))
             => details_mode \in {"TimelineItems", "LinkedChunk"}]_vars
    /\ [][(\/ pc = "idle" /\ pc' = "marking"
           \/ StatusSet("missing room or nothing to show"))
             => details_mode = "ReadReceipts"]_vars

\* A read receipt is being sent while a pagination that 'b' started is
\* recorded.
C30_Witness ==
    /\ pc = "marking"
    /\ IsSome(current_pagination)
    /\ details_mode = "ReadReceipts"

(***************************************************************************)
(* The first key press on a list without a selection.                      *)
(***************************************************************************)
\* C31: when next() or previous() has been called with no selection on a
\* list that is not empty, the selection is index 0 and the call returned
\* Some(0); previous() has not selected the last index.
C31_FirstMoveSelectsZero ==
    (pc = "nav_done" /\ nav.prev = None /\ nav.num_items > 0) =>
        /\ selected = Some(0)
        /\ nav.ret = Some(0)
        /\ (nav.dir = "previous" /\ nav.num_items > 1) => selected # Some(nav.num_items - 1)

\* previous() has been called with no selection on a list of two rooms or
\* more and returned index 0.
C31_Witness ==
    /\ pc = "nav_done"
    /\ nav.dir = "previous"
    /\ nav.prev = None
    /\ nav.num_items > 1
    /\ nav.ret = Some(0)
    /\ selected = Some(0)

\* The same for next().
C31_WitnessNext ==
    /\ pc = "nav_done"
    /\ nav.dir = "next"
    /\ nav.prev = None
    /\ nav.num_items > 1
    /\ nav.ret = Some(0)

====
